---- MODULE Spec2Model ----
(***************************************************************************)
(* A model of twitch-search (src/src/main.rs): the paginated fetch loop,   *)
(* the normalisation of stream records into entries, the title/exclusion   *)
(* filter, and the report with its summary line.                           *)
(*                                                                         *)
(* Strings are sequences of one-character strings.  Option<T> is a         *)
(* sequence of length 0 (None) or 1 (Some).                                *)
(***************************************************************************)
EXTENDS Integers, Sequences, FiniteSets, TLC

VARIABLES
    pc,          \* position of the program
    term,        \* args.term: Option<String>
    word,        \* args.word
    limit,       \* args.limit
    excludeArg,  \* args.exclude: Option<Vec<String>>
    envIgnore,   \* env TWITCH_IGNORE: Option<String>
    clientId,    \* env TWITCH_CLIENT_ID: Option
    token,       \* env TWITCH_TOKEN: Option
    exclude,     \* main's `exclude`
    page,        \* main's `page`: Option<String>
    total,       \* main's `total`
    result,      \* main's `result`: Vec<Entry>
    found,       \* entries the report iterator has yielded so far
    idx,         \* position of the report iterator in `result`
    out,         \* stdout, a sequence of lines
    exitCode,    \* process exit status, Running while the process lives
    requests,    \* the `after` parameter of every GET sent, in order
    responses,   \* what the upstream answered to each GET, in order
    entry,       \* filter harness: the entry handed to filter
    accepted,    \* filter harness: what filter returned
    ds,          \* to_instant harness: the timestamp string (by its parse)
    now,         \* Utc::now(), in seconds
    live         \* to_instant harness: what to_instant returned

vars == <<pc, term, word, limit, excludeArg, envIgnore, clientId, token, exclude,
          page, total, result, found, idx, out, exitCode, requests, responses,
          entry, accepted, ds, now, live>>

\* ------------------------------------------------------------------ bounds
MaxPages == 2
MaxLimit == 2
MaxTitleLen == 3
MaxTermLen == 2
MaxSkew == 3

\* ----------------------------------------------------------------- options
None == <<>>
Some(x) == <<x>>
IsSome(o) == Len(o) = 1
Unwrap(o) == o[1]

\* ----------------------------------------------------------------- strings
Letters == {"a", "b", "f", "o", "r", "p", "l", "y", "x", "m", "A", "B", "F", "M", "O"}

\* char::is_alphabetic
is_alphabetic(c) == c \in Letters

\* char -> its lower-case form, as str::to_lowercase maps it
LowerChar(c) ==
    CASE c = "A" -> "a"
      [] c = "B" -> "b"
      [] c = "F" -> "f"
      [] c = "M" -> "m"
      [] c = "O" -> "o"
      [] OTHER -> c

\* str::to_lowercase
to_lowercase(s) == [i \in 1..Len(s) |-> LowerChar(s[i])]

\* str::contains: pat occurs in s as a contiguous substring
contains(s, pat) ==
    \E i \in 1..(Len(s) - Len(pat) + 1) : SubSeq(s, i, i + Len(pat) - 1) = pat

\* str::split with a separator predicate: the pieces between separators,
\* empty pieces included (sep is the set of separator characters met in s)
RECURSIVE SplitFrom(_, _, _, _)
SplitFrom(s, sep, i, cur) ==
    IF i > Len(s) THEN <<cur>>
    ELSE IF s[i] \in sep THEN <<cur>> \o SplitFrom(s, sep, i + 1, <<>>)
    ELSE SplitFrom(s, sep, i + 1, Append(cur, s[i]))

split(s, sep) == SplitFrom(s, sep, 1, <<>>)

\* the characters of s that the closure |c| !c.is_alphabetic() selects
NonAlphabetic(s) == {c \in {s[i] : i \in 1..Len(s)} : ~is_alphabetic(c)}

\* str::replace of one character by another
replace(s, from, to) == [i \in 1..Len(s) |-> IF s[i] = from THEN to ELSE s[i]]

Range(s) == {s[i] : i \in 1..Len(s)}

\* --------------------------------------------------------------- to_instant
\* i64 division and remainder truncate toward zero
TruncDiv(a, b) == IF a >= 0 THEN a \div b ELSE -((-a) \div b)
TruncRem(a, b) == a - b * TruncDiv(a, b)

DigitChar(d) ==
    CASE d = 0 -> "0" [] d = 1 -> "1" [] d = 2 -> "2" [] d = 3 -> "3" [] d = 4 -> "4"
      [] d = 5 -> "5" [] d = 6 -> "6" [] d = 7 -> "7" [] d = 8 -> "8" [] d = 9 -> "9"

RECURSIVE Digits(_)
Digits(n) == IF n < 10 THEN <<DigitChar(n)>> ELSE Append(Digits(n \div 10), DigitChar(n % 10))

\* format!("{:02}", n) for an i64: sign-aware zero padding to width 2
Fmt02(n) ==
    IF n < 0 THEN <<"-">> \o Digits(-n)
    ELSE IF n < 10 THEN <<"0">> \o Digits(n)
    ELSE Digits(n)

\* Duration::num_hours and Duration::num_minutes of a duration of d seconds
num_hours(d) == TruncDiv(d, 3600)
num_minutes(d) == TruncDiv(d, 60)

\* The minutes field that to_instant formats
MinutesField(dur) == TruncRem(num_minutes(dur), 60)

\* A timestamp string s is modelled by its parse: s.ok says whether it parses as
\* DateTime<Utc>, s.at is the instant (seconds) when it does.
to_instant(s, clock) ==
    IF s.ok
    THEN LET dur == clock - s.at
         IN  Fmt02(num_hours(dur)) \o <<":">> \o Fmt02(MinutesField(dur))
    ELSE <<>>

\* ------------------------------------------------------------------- filter
\* The word-boundary branch of filter
word_match_substring(title, t) == contains(to_lowercase(title), t)
word_match(title, t) ==
    LET pieces == split(to_lowercase(title), NonAlphabetic(to_lowercase(title)))
    IN  \E k \in 1..Len(pieces) : pieces[k] = t

\* The substring branch of filter
substring_match(title, t) == contains(to_lowercase(title), t)

filter(e, w, t, ignored_names) ==
    IF to_lowercase(e.display_name) \in Range(ignored_names) THEN FALSE
    ELSE IF ~IsSome(t) THEN TRUE
    ELSE IF w THEN word_match(e.title, Unwrap(t))
    ELSE substring_match(e.title, Unwrap(t))

\* exclusions: the -x names lower-cased, then the comma-separated pieces of
\* TWITCH_IGNORE lower-cased
exclusions_verbatim(ex, ignore) ==
    (IF IsSome(ex) THEN Unwrap(ex) ELSE <<>>)
        \o (IF IsSome(ignore) THEN split(Unwrap(ignore), {","}) ELSE <<>>)
exclusions(ex, ignore) ==
    (IF IsSome(ex) THEN [i \in 1..Len(Unwrap(ex)) |-> to_lowercase(Unwrap(ex)[i])] ELSE <<>>)
        \o (IF IsSome(ignore)
            THEN LET ps == split(Unwrap(ignore), {","})
                 IN  [i \in 1..Len(ps) |-> to_lowercase(ps[i])]
            ELSE <<>>)

\* --------------------------------------------------------------- JSON model
\* A JSON field of a record: t is "absent", "str", "num" or "other";
\* s is the string when t = "str", n the integer when t = "num".
JStr(s) == [t |-> "str", s |-> s, n |-> 0]
JNum(n) == [t |-> "num", s |-> <<>>, n |-> n]
JAbsent == [t |-> "absent", s |-> <<>>, n |-> 0]

\* started_at: a JSON string is modelled by its parse (see to_instant)
JTime(at) == [t |-> "str", ok |-> TRUE, at |-> at]
JTimeGarbage == [t |-> "str", ok |-> FALSE, at |-> 0]

\* to_str!(value, key) and to_num!(value, key) succeed (both unwraps)
to_str_ok(f) == f.t = "str"
to_num_ok(f) == f.t = "num"

\* to_entry returns (none of its unwraps panics)
RecordOkLenient(rec) ==
    to_str_ok(rec.language) /\ to_str_ok(rec.user_name) /\ to_num_ok(rec.viewer_count)
        /\ to_str_ok(rec.started_at)
RecordOk(rec) ==
    to_str_ok(rec.language) /\ to_str_ok(rec.user_name) /\ to_str_ok(rec.title)
        /\ to_num_ok(rec.viewer_count) /\ to_str_ok(rec.started_at)

\* U+2026, the one character that replaces a newline in a title
Ellipsis == "U+2026"

to_entry(rec, clock) ==
    [lang |-> rec.language.s,
     display_name |-> rec.user_name.s,
     title |-> replace(rec.title.s, "\n", Ellipsis),
     viewer_count |-> rec.viewer_count.n,
     live_duration |-> to_instant(rec.started_at, clock)]

\* The cursor fetch reads from the response: Some(s) exactly when `pagination`
\* is there, has a `cursor`, and that cursor is a JSON string
pagination_nonempty(json) ==
    IF json.pagination.t = "object" /\ json.pagination.cursor.t = "str"
           /\ json.pagination.cursor.s # <<>>
    THEN Some(json.pagination.cursor.s)
    ELSE None
pagination(json) ==
    IF json.pagination.t = "object" /\ json.pagination.cursor.t = "str"
    THEN Some(json.pagination.cursor.s)
    ELSE None

\* The match on json.get_mut("data"): Some(records) for an array, None otherwise
data_array_or_empty(json) ==
    IF json.data.t = "array" THEN Some(json.data.items) ELSE Some(<<>>)
data_array(json) ==
    IF json.data.t = "array" THEN Some(json.data.items) ELSE None

\* Exit status of a Rust process whose main thread panicked
PanicExitCode == 101
Running == -1

Exit(code, sent) ==
    [k |-> "exit", code |-> code, sent |-> sent, entries |-> <<>>, pagination |-> None]
Return(entries, pg) ==
    [k |-> "return", code |-> Running, sent |-> TRUE, entries |-> entries, pagination |-> pg]

\* fetch(after), given the environment and what the upstream answers to the GET
fetch(after, cid, tok, resp, clock) ==
    IF ~IsSome(cid) THEN Exit(1, FALSE)
    ELSE IF ~IsSome(tok) THEN Exit(1, FALSE)
    ELSE IF resp.kind = "transport_error" THEN Exit(PanicExitCode, TRUE)
    ELSE IF resp.kind = "bad_json" THEN Exit(1, TRUE)
    ELSE LET pg == pagination(resp)
             data == data_array(resp)
         IN  IF ~IsSome(data) THEN Exit(0, TRUE)
             ELSE IF \E i \in 1..Len(Unwrap(data)) : ~RecordOk(Unwrap(data)[i])
                  THEN Exit(PanicExitCode, TRUE)
                  ELSE Return([i \in 1..Len(Unwrap(data)) |-> to_entry(Unwrap(data)[i], clock)],
                              pg)

\* --------------------------------------------------------------------- main
\* total += entries.len()
AddTotalLastPage(t, entries) == Len(entries)
AddTotal(t, entries) == t + Len(entries)

\* the loop goes round again unless page.is_none()
LoopContinuesAlways(p) == TRUE
LoopContinues(p) == IsSome(p)

\* let limit = if args.limit == 0 { total } else { args.limit }
take_limit_raw(l, t) == l
take_limit(l, t) == IF l = 0 THEN t ELSE l

\* stdout lines
NoEntry == [lang |-> <<>>, display_name |-> <<>>, title |-> <<>>, viewer_count |-> 0,
            live_duration |-> <<>>]
SearchingLine(t) == [kind |-> "searching", text |-> t, e |-> NoEntry, found |-> 0, total |-> 0]
EntryLine(e) == [kind |-> "entry", text |-> <<>>, e |-> e, found |-> 0, total |-> 0]
DoneLine(f, t) == [kind |-> "done", text |-> <<>>, e |-> NoEntry, found |-> f, total |-> t]

\* ---------------------------------------------------------- the environment
Str_a == <<"a">>
Str_BOB == <<"B", "O", "B">>
Str_Bob == <<"B", "o", "b">>
Str_amy == <<"a", "m", "y">>
Str_en == <<"e", "n">>
Str_abc == <<"a", "b", "c">>
Str_def == <<"d", "e", "f">>

NowSecs == 200000

Rec1 == [language |-> JStr(Str_en), user_name |-> JStr(Str_Bob),
         title |-> JStr(<<"a", " ", "b">>), viewer_count |-> JNum(7),
         started_at |-> JTime(NowSecs - 5400)]
Rec2 == [language |-> JStr(Str_en), user_name |-> JStr(Str_amy),
         title |-> JStr(<<"a", "b", "\n">>), viewer_count |-> JNum(12),
         started_at |-> JTimeGarbage]
RecNoTitle == [Rec1 EXCEPT !.title = JAbsent]
RecBadCount == [Rec2 EXCEPT !.viewer_count = JStr(<<"1">>)]

DataArrays == {<<>>, <<Rec1>>, <<Rec2, Rec1>>, <<Rec1, RecNoTitle>>, <<RecBadCount>>}

Datas ==
    {[t |-> "absent", items |-> <<>>], [t |-> "other", items |-> <<>>]}
        \cup {[t |-> "array", items |-> a] : a \in DataArrays}

Paginations ==
    {[t |-> "absent", cursor |-> JAbsent], [t |-> "other", cursor |-> JAbsent]}
        \cup {[t |-> "object", cursor |-> c] :
                c \in {JAbsent, JNum(5), JStr(<<>>), JStr(Str_abc), JStr(Str_def)}}

NoJson == [t |-> "absent", cursor |-> JAbsent]
NoData == [t |-> "absent", items |-> <<>>]

Responses ==
    {[kind |-> "transport_error", pagination |-> NoJson, data |-> NoData],
     [kind |-> "bad_json", pagination |-> NoJson, data |-> NoData]}
        \cup {[kind |-> "json", pagination |-> p, data |-> d] : p \in Paginations, d \in Datas}

Terms == {None, Some(Str_a)}
ExcludeConfigs ==
    {<<None, None>>, <<Some(<<Str_BOB>>), None>>, <<None, Some(<<"x", ",", "A", "m", "y">>)>>}
Credentials == {<<Some(<<"i">>), Some(<<"t">>)>>, <<None, Some(<<"t">>)>>, <<Some(<<"i">>), None>>}

DefaultEntry == NoEntry
DefaultDs == [ok |-> FALSE, at |-> 0]

\* ------------------------------------------------------------- the program
Init ==
    /\ pc = "start"
    /\ term \in Terms
    /\ word \in BOOLEAN
    /\ limit \in 0..MaxLimit
    /\ \E x \in ExcludeConfigs : excludeArg = x[1] /\ envIgnore = x[2]
    /\ \E c \in Credentials : clientId = c[1] /\ token = c[2]
    /\ exclude = <<>>
    /\ page = None
    /\ total = 0
    /\ result = <<>>
    /\ found = 0
    /\ idx = 0
    /\ out = <<>>
    /\ exitCode = Running
    /\ requests = <<>>
    /\ responses = <<>>
    /\ entry = DefaultEntry
    /\ accepted = FALSE
    /\ ds = DefaultDs
    /\ now = NowSecs
    /\ live = <<>>

\* main up to the loop: exclusions and the "Searching for" line
Start ==
    /\ pc = "start"
    /\ exclude' = exclusions(excludeArg, envIgnore)
    /\ out' = IF IsSome(term) THEN <<SearchingLine(Unwrap(term))>> ELSE <<>>
    /\ total' = 0
    /\ result' = <<>>
    /\ page' = None
    /\ pc' = "loop"
    /\ UNCHANGED <<term, word, limit, excludeArg, envIgnore, clientId, token, found, idx,
                   exitCode, requests, responses, entry, accepted, ds, now, live>>

\* one turn of main's loop: fetch(page), then total, page, result and the break
Fetch ==
    /\ pc = "loop"
    /\ Len(requests) < MaxPages
    /\ \E resp \in Responses :
         LET o == fetch(page, clientId, token, resp, now)
         IN  /\ requests' = IF o.sent THEN Append(requests, page) ELSE requests
             /\ responses' = IF o.sent THEN Append(responses, resp) ELSE responses
             /\ IF o.k = "return"
                THEN /\ total' = AddTotal(total, o.entries)
                     /\ page' = o.pagination
                     /\ result' = result \o o.entries
                     /\ pc' = IF LoopContinues(o.pagination) THEN "loop" ELSE "report"
                     /\ exitCode' = exitCode
                ELSE /\ exitCode' = o.code
                     /\ pc' = "exited"
                     /\ UNCHANGED <<total, page, result>>
    /\ UNCHANGED <<term, word, limit, excludeArg, envIgnore, clientId, token, exclude, found,
                   idx, out, entry, accepted, ds, now, live>>

\* positions after idx of the entries filter accepts
AcceptedAfter(i) ==
    {j \in (i + 1)..Len(result) : filter(result[j], word, term, exclude)}

Min(S) == CHOOSE x \in S : \A y \in S : x <= y

\* the report iterator yields its next entry: filter skips to the next accepted
\* entry, take lets it through, print writes its line
PrintNext ==
    /\ pc = "report"
    /\ found < take_limit(limit, total)
    /\ AcceptedAfter(idx) # {}
    /\ LET j == Min(AcceptedAfter(idx))
       IN  /\ out' = Append(out, EntryLine(result[j]))
           /\ idx' = j
    /\ found' = found + 1
    /\ UNCHANGED <<pc, term, word, limit, excludeArg, envIgnore, clientId, token, exclude,
                   page, total, result, exitCode, requests, responses, entry, accepted, ds,
                   now, live>>

\* the report iterator is exhausted: count() returns, the summary is printed,
\* main returns
Done ==
    /\ pc = "report"
    /\ (found >= take_limit(limit, total) \/ AcceptedAfter(idx) = {})
    /\ out' = Append(out, DoneLine(found, total))
    /\ exitCode' = 0
    /\ pc' = "done"
    /\ UNCHANGED <<term, word, limit, excludeArg, envIgnore, clientId, token, exclude, page,
                   total, result, found, idx, requests, responses, entry, accepted, ds, now,
                   live>>

Next == Start \/ Fetch \/ PrintNext \/ Done

Spec == Init /\ [][Next]_vars

\* ----------------------------------------------------- filter, called alone
FilterChars == {"a", "A", " ", "1"}

StringsUpTo(n) == UNION {[1..k -> FilterChars] : k \in 0..n}

Str_foo == <<"f", "o", "o">>
ExampleTitles ==
    {<<"f", "o", "o", " ", "b", "a", "r">>,
     <<"p", "l", "a", "y", " ", "f", "o", "o", "!">>,
     <<"f", "o", "o", "b", "a", "r">>,
     <<"x", "f", "o", "o", "y">>}

FilterTitles == StringsUpTo(MaxTitleLen) \cup ExampleTitles
FilterTerms == {None} \cup {Some(t) : t \in StringsUpTo(MaxTermLen) \cup {Str_foo}}
FilterNames == {Str_Bob, Str_amy}

FilterInit ==
    /\ pc = "filter_call"
    /\ term \in FilterTerms
    /\ word \in BOOLEAN
    /\ \E x \in ExcludeConfigs : excludeArg = x[1] /\ envIgnore = x[2]
    /\ \E n \in FilterNames, t \in FilterTitles :
         entry = [NoEntry EXCEPT !.display_name = n, !.title = t]
    /\ accepted = FALSE
    /\ limit = 0
    /\ clientId = None
    /\ token = None
    /\ exclude = <<>>
    /\ page = None
    /\ total = 0
    /\ result = <<>>
    /\ found = 0
    /\ idx = 0
    /\ out = <<>>
    /\ exitCode = Running
    /\ requests = <<>>
    /\ responses = <<>>
    /\ ds = DefaultDs
    /\ now = NowSecs
    /\ live = <<>>

\* filter(&entry, word_boundary, &search_term, &exclude) with main's exclude
FilterCall ==
    /\ pc = "filter_call"
    /\ exclude' = exclusions(excludeArg, envIgnore)
    /\ accepted' = filter(entry, word, term, exclusions(excludeArg, envIgnore))
    /\ pc' = "filter_done"
    /\ UNCHANGED <<term, word, limit, excludeArg, envIgnore, clientId, token, page, total,
                   result, found, idx, out, exitCode, requests, responses, entry, ds, now,
                   live>>

FilterNext == FilterCall

FilterSpec == FilterInit /\ [][FilterNext]_vars

\* ------------------------------------------------- to_instant, called alone
\* now - started_at, in seconds: every second within MaxSkew minutes either side
\* of now, and some longer streams
Elapsed ==
    (-(MaxSkew * 60))..(MaxSkew * 60)
        \cup {3599, 3600, 5400, 86399, 86400, 108000, 359999, 360000}

InstantInit ==
    /\ pc = "instant_call"
    /\ now = NowSecs
    /\ ds \in {DefaultDs} \cup {[ok |-> TRUE, at |-> NowSecs - d] : d \in Elapsed}
    /\ live = <<>>
    /\ term = None
    /\ word = FALSE
    /\ limit = 0
    /\ excludeArg = None
    /\ envIgnore = None
    /\ clientId = None
    /\ token = None
    /\ exclude = <<>>
    /\ page = None
    /\ total = 0
    /\ result = <<>>
    /\ found = 0
    /\ idx = 0
    /\ out = <<>>
    /\ exitCode = Running
    /\ requests = <<>>
    /\ responses = <<>>
    /\ entry = DefaultEntry
    /\ accepted = FALSE

InstantCall ==
    /\ pc = "instant_call"
    /\ live' = to_instant(ds, now)
    /\ pc' = "instant_done"
    /\ UNCHANGED <<term, word, limit, excludeArg, envIgnore, clientId, token, exclude, page,
                   total, result, found, idx, out, exitCode, requests, responses, entry,
                   accepted, ds, now>>

InstantNext == InstantCall

InstantSpec == InstantInit /\ [][InstantNext]_vars

\* ================================================================== claims
\* What the upstream sent, read off the responses themselves
HasStringCursor(r) ==
    r.kind = "json" /\ r.pagination.t = "object" /\ r.pagination.cursor.t = "str"
CursorOf(r) == r.pagination.cursor.s
HasNonEmptyCursor(r) == HasStringCursor(r) /\ CursorOf(r) # <<>>
LastResponse == responses[Len(responses)]

Malformed(rec) ==
    \/ rec.language.t # "str"
    \/ rec.user_name.t # "str"
    \/ rec.title.t # "str"
    \/ rec.started_at.t # "str"
    \/ rec.viewer_count.t # "num"
HasMalformedRecord(r) ==
    r.kind = "json" /\ r.data.t = "array" /\ \E i \in 1..Len(r.data.items) : Malformed(r.data.items[i])

RECURSIVE RecordsUpTo(_)
RecordsUpTo(n) == IF n = 0 THEN <<>> ELSE RecordsUpTo(n - 1) \o responses[n].data.items
FetchedRecords == RecordsUpTo(Len(responses))

IsEntryLine(l) == l.kind = "entry"
IsDoneLine(l) == l.kind = "done"
EntryLines == SelectSeq(out, IsEntryLine)
DoneLines == SelectSeq(out, IsDoneLine)
PrintedEntries == [i \in 1..Len(EntryLines) |-> EntryLines[i].e]

Accepts(e) == filter(e, word, term, exclude)
AcceptedEntries == SelectSeq(result, Accepts)

\* C1: the first request carries no cursor; every later request carries exactly the
\* cursor the response before it returned; no request follows a response without a
\* cursor, after which the loop has ended.
C1_PaginationProtocol ==
    /\ Len(requests) = Len(responses)
    /\ Len(requests) >= 1 => requests[1] = None
    /\ \A i \in 2..Len(requests) :
         /\ HasStringCursor(responses[i - 1])
         /\ requests[i] = Some(CursorOf(responses[i - 1]))
    /\ (Len(responses) >= 1 /\ ~HasStringCursor(LastResponse)) => pc # "loop"

C1_Witness ==
    /\ pc = "report"
    /\ Len(requests) >= 2
    /\ requests[Len(requests)] = Some(Str_def)

\* C10 as stated: a response whose pagination.cursor is absent, not a string or the
\* empty string is the final page, and no request is sent with an empty after value.
C10_EmptyCursorEndsLoop ==
    /\ \A i \in 1..Len(requests) : requests[i] # Some(<<>>)
    /\ (Len(responses) >= 1 /\ ~HasNonEmptyCursor(LastResponse)) => pc # "loop"

\* C10 amended: a cursor is extracted exactly when pagination.cursor is a string,
\* the empty string included; only an absent or non-string cursor ends the loop.
C10_StringCursorContinues ==
    /\ (Len(responses) >= 1 /\ pc \in {"loop", "report", "done"}) =>
         IF HasStringCursor(LastResponse)
         THEN page = Some(CursorOf(LastResponse)) /\ pc = "loop"
         ELSE page = None /\ pc # "loop"
    /\ \A i \in 2..Len(requests) :
         requests[i] = Some(<<>>) <=>
             (HasStringCursor(responses[i - 1]) /\ CursorOf(responses[i - 1]) = <<>>)

C10_Witness ==
    /\ Len(requests) >= 2
    /\ requests[Len(requests)] = Some(<<>>)
    /\ pc = "report"

\* C5: at the summary, the entry lines are the first min(n, A) accepted entries in
\* fetch order (all A when the limit is 0), and the summary's first number is the
\* number of entry lines.
C5_LimitSemantics ==
    pc = "done" =>
        LET A == Len(AcceptedEntries)
            n == IF limit = 0 THEN A ELSE IF limit < A THEN limit ELSE A
        IN  /\ PrintedEntries = SubSeq(AcceptedEntries, 1, n)
            /\ result = [k \in 1..Len(FetchedRecords) |-> to_entry(FetchedRecords[k], now)]
            /\ Len(DoneLines) = 1
            /\ IsDoneLine(out[Len(out)])
            /\ out[Len(out)].found = Len(EntryLines)

C5_Witness ==
    /\ pc = "done"
    /\ limit > 0
    /\ Len(AcceptedEntries) > limit
    /\ Len(EntryLines) = limit
    /\ Len(responses) >= 2

\* C6: the summary's total is the sum of the record counts of all pages fetched,
\* whatever the term, word mode, exclusions and limit, and is at least the number
\* printed; an entry line is only printed once the last page has been fetched.
C6_TotalBeforeFiltering ==
    /\ pc = "done" =>
         /\ out[Len(out)].total = Len(FetchedRecords)
         /\ out[Len(out)].total >= Len(EntryLines)
    /\ Len(EntryLines) > 0 =>
         /\ pc \in {"report", "done"}
         /\ Len(responses) >= 1
         /\ ~HasStringCursor(LastResponse)

C6_Witness ==
    /\ pc = "done"
    /\ Len(responses) >= 2
    /\ Len(responses[1].data.items) > 0
    /\ Len(LastResponse.data.items) > 0
    /\ Len(EntryLines) > 0
    /\ Len(EntryLines) < Len(FetchedRecords)

\* A fatal error has happened: the credentials are missing and fetch has been
\* called, or the last GET failed, returned a body that is not JSON, or returned
\* a malformed record.
CredentialsMissing == ~IsSome(clientId) \/ ~IsSome(token)
FatalConfig == CredentialsMissing /\ pc \notin {"start", "loop"}
FatalTransport == Len(responses) >= 1 /\ LastResponse.kind = "transport_error"
FatalJson == Len(responses) >= 1 /\ LastResponse.kind = "bad_json"
FatalRecord == Len(responses) >= 1 /\ HasMalformedRecord(LastResponse)
NothingReported == Len(EntryLines) = 0 /\ Len(DoneLines) = 0

\* C7 as stated: every fatal error ends the run with exit code 1 and no entry line
\* or summary line.
C7_FatalExitsOne ==
    (FatalConfig \/ FatalTransport \/ FatalJson \/ FatalRecord) =>
        pc = "exited" /\ exitCode = 1 /\ NothingReported

\* C7 amended: every fatal error ends the run with a non-zero status and no entry
\* line or summary line: status 1 for missing credentials and for a body that is
\* not JSON, the panic status 101 for a transport failure and a malformed record.
C7_FatalExitsNonZero ==
    /\ (FatalConfig \/ FatalJson) =>
         pc = "exited" /\ exitCode = 1 /\ NothingReported
    /\ (FatalTransport \/ FatalRecord) =>
         pc = "exited" /\ exitCode = PanicExitCode /\ NothingReported
    /\ CredentialsMissing => requests = <<>>

C7_Witness ==
    /\ FatalRecord
    /\ Len(responses) >= 2
    /\ result # <<>>
    /\ exitCode = PanicExitCode

\* C8: a response without a data array ends the process at once with status 0, no
\* entry line and no summary line, whatever earlier pages accumulated.
NoDataArray(r) == r.kind = "json" /\ r.data.t # "array"

C8_BenignTermination ==
    (Len(responses) >= 1 /\ NoDataArray(LastResponse)) =>
        /\ pc = "exited"
        /\ exitCode = 0
        /\ NothingReported
        /\ Len(requests) = Len(responses)

C8_Witness ==
    /\ Len(responses) >= 2
    /\ NoDataArray(LastResponse)
    /\ HasStringCursor(LastResponse)
    /\ result # <<>>
    /\ exitCode = 0

\* ---- filter
ExcludedByConfig ==
    LET nm == to_lowercase(entry.display_name)
    IN  \/ IsSome(excludeArg) /\ \E i \in 1..Len(Unwrap(excludeArg)) :
               to_lowercase(Unwrap(excludeArg)[i]) = nm
        \/ IsSome(envIgnore) /\ \E i \in 1..Len(split(Unwrap(envIgnore), {","})) :
               to_lowercase(split(Unwrap(envIgnore), {","})[i]) = nm

\* C2: an entry whose lower-cased display name is in the exclusion set is rejected,
\* whatever the term and the word mode.
C2_ExclusionFirst ==
    (pc = "filter_done" /\ ExcludedByConfig) => accepted = FALSE

C2_Witness ==
    /\ pc = "filter_done"
    /\ ExcludedByConfig
    /\ IsSome(term)
    /\ word
    /\ Unwrap(term) = Str_foo
    /\ entry.title = <<"f", "o", "o", " ", "b", "a", "r">>
    /\ entry.display_name = Str_Bob

\* C3 as stated: in substring mode a non-excluded entry is accepted iff its
\* lower-cased title contains the lower-cased term.
C3_SubstringBothLowercased ==
    (pc = "filter_done" /\ ~ExcludedByConfig /\ IsSome(term) /\ ~word) =>
        (accepted <=> contains(to_lowercase(entry.title), to_lowercase(Unwrap(term))))

\* The tokens of a string: its maximal non-empty runs of alphabetic characters
Tokens(s) ==
    {SubSeq(s, i, j) : <<i, j>> \in
        {ij \in (1..Len(s)) \X (1..Len(s)) :
            /\ ij[1] <= ij[2]
            /\ \A k \in ij[1]..ij[2] : s[k] \in Letters
            /\ (ij[1] = 1 \/ s[ij[1] - 1] \notin Letters)
            /\ (ij[2] = Len(s) \/ s[ij[2] + 1] \notin Letters)}}

\* C4 as stated: in word mode a non-excluded entry is accepted iff the term is one
\* of the tokens of the lower-cased title.
C4_WordIsToken ==
    (pc = "filter_done" /\ ~ExcludedByConfig /\ IsSome(term) /\ word) =>
        (accepted <=> Unwrap(term) \in Tokens(to_lowercase(entry.title)))

\* Splitting at every non-alphabetic character leaves an empty piece
HasEmptyPiece(s) ==
    \/ s = <<>>
    \/ s[1] \notin Letters
    \/ s[Len(s)] \notin Letters
    \/ \E i \in 1..(Len(s) - 1) : s[i] \notin Letters /\ s[i + 1] \notin Letters

\* C4 amended: in word mode a non-excluded entry is accepted iff the term is one of
\* the pieces of the lower-cased title split at every non-alphabetic character: for
\* a non-empty term, one of its tokens; for the empty term, an empty piece (the
\* title is empty, begins or ends with a separator, or has two adjacent ones).
\* A term with a non-alphabetic character is never accepted.
C4_WordIsPiece ==
    (pc = "filter_done" /\ ~ExcludedByConfig /\ IsSome(term) /\ word) =>
        /\ accepted <=>
             IF Unwrap(term) # <<>>
             THEN Unwrap(term) \in Tokens(to_lowercase(entry.title))
             ELSE HasEmptyPiece(to_lowercase(entry.title))
        /\ (\E i \in 1..Len(Unwrap(term)) : Unwrap(term)[i] \notin Letters) => ~accepted

C4_Witness ==
    /\ pc = "filter_done"
    /\ ~ExcludedByConfig
    /\ word
    /\ term = Some(Str_foo)
    /\ entry.title = <<"p", "l", "a", "y", " ", "f", "o", "o", "!">>
    /\ accepted

\* ---- to_instant
\* C9 as stated: a timestamp that parses gives HH:MM with HH the whole hours
\* elapsed, MM the minutes within the hour, in 0..59, both zero-padded to two
\* digits; one that does not parse gives the empty string.
C9_DurationFormat ==
    pc = "instant_done" =>
        IF ds.ok
        THEN LET e == now - ds.at
             IN  \E mm \in 0..59 :
                   /\ live = Fmt02(TruncDiv(e, 3600)) \o <<":">> \o Fmt02(mm)
                   /\ e >= 0 => mm = (e \div 60) % 60
        ELSE live = <<>>

====
